---------------------------- MODULE Spec2Model ----------------------------
(***************************************************************************)
(* Model of src/src/api_server.py: the OpenAI-compatible transcription     *)
(* endpoint (TranscriptionHandler) and its lifecycle manager (APIServer).  *)
(*                                                                         *)
(* Threads of the program:                                                 *)
(*   - the host thread(s) that call APIServer.start() / APIServer.stop();  *)
(*   - the serving thread running ThreadingHTTPServer.serve_forever;       *)
(*   - one handler thread per accepted connection (ThreadingMixIn), which  *)
(*     runs TranscriptionHandler for the single request of the connection  *)
(*     (protocol HTTP/1.0: one request per connection).                    *)
(*                                                                         *)
(* Text is a sequence of one-character strings, so that substring tests,   *)
(* splitting and trimming are computed as the code computes them.          *)
(***************************************************************************)
EXTENDS Integers, Sequences, FiniteSets, TLC

\* Connections the listener serves at the same time (one handler thread each).
MaxConn == 2

Conns == 1..MaxConn

\* The host threads calling start()/stop(): a single one, calling in sequence.
Hosts == {1}

(***************************************************************************)
(* Text helpers (Python str / bytes operations used by the handler).       *)
(***************************************************************************)

\* str.startswith
StartsWith(s, p) ==
    /\ Len(p) <= Len(s)
    /\ SubSeq(s, 1, Len(p)) = p

\* `needle in hay` for str
Contains(hay, needle) ==
    \E k \in 0..(Len(hay) - Len(needle)) :
        SubSeq(hay, k + 1, k + Len(needle)) = needle

\* Characters that TLA+ strings cannot hold are written as tokens: "<0B>" is
\* the byte 0x0B, "<U+00A0>" the character U+00A0 (in bytes: its UTF-8
\* encoding).
VerticalTab == "<0B>"

\* The bytes that bytes.strip() removes (and that float() skips around an
\* ASCII literal): space, \t, \n, \r, \x0b, \x0c
AsciiWhitespace == {" ", "\t", "\n", "\r", "\f", VerticalTab}

\* The white space outside ASCII (str.isspace)
WideWhitespace ==
    {"<U+0085>", "<U+00A0>", "<U+1680>", "<U+2000>", "<U+2001>", "<U+2002>",
     "<U+2003>", "<U+2004>", "<U+2005>", "<U+2006>", "<U+2007>", "<U+2008>",
     "<U+2009>", "<U+200A>", "<U+2028>", "<U+2029>", "<U+202F>", "<U+205F>",
     "<U+3000>"}

\* The characters that str.strip() removes; the separators 0x1C-0x1F are
\* white space for str, not for bytes
Whitespace ==
    AsciiWhitespace \cup {"<1C>", "<1D>", "<1E>", "<1F>"} \cup WideWhitespace

\* str.strip(chars): from the first to the last character not in chars;
\* str.strip() is Strip(s, Whitespace), bytes.strip() is
\* Strip(s, AsciiWhitespace)
Strip(s, chars) ==
    LET keep == {k \in 1..Len(s) : s[k] \notin chars}
    IN  IF keep = {} THEN <<>>
        ELSE SubSeq(s, CHOOSE k \in keep : \A m \in keep : k <= m,
                       CHOOSE k \in keep : \A m \in keep : k >= m)

\* str.split(sep) for a one-character separator: the pieces between the
\* separators, always at least one piece
SplitOn(s, sep) ==
    LET at == {k \in 1..Len(s) : s[k] = sep}
        n == Cardinality(at)
        \* the position of the k-th separator; 0 and Len(s) + 1 at the ends
        cut(k) == IF k = 0 THEN 0
                  ELSE IF k = n + 1 THEN Len(s) + 1
                  ELSE CHOOSE q \in at : Cardinality({r \in at : r < q}) = k - 1
    IN  [k \in 1..(n + 1) |-> SubSeq(s, cut(k - 1) + 1, cut(k) - 1)]

\* ''.join(list of str)
RECURSIVE Join(_)
Join(ss) == IF ss = <<>> THEN <<>> ELSE Head(ss) \o Join(Tail(ss))

\* bytes.endswith
EndsWith(s, p) ==
    /\ Len(p) <= Len(s)
    /\ SubSeq(s, Len(s) - Len(p) + 1, Len(s)) = p

\* bytes.find + 1: where needle first starts in hay, 0 when it does not occur
Find(hay, needle) ==
    LET hits == {k \in 1..(Len(hay) - Len(needle) + 1) :
                     SubSeq(hay, k, k + Len(needle) - 1) = needle}
    IN  IF hits = {} THEN 0 ELSE CHOOSE k \in hits : \A m \in hits : k <= m

\* bytes.split(sep) / str.split(sep) for a separator of any length: cut at
\* each occurrence, found from left to right
RECURSIVE Split(_, _)
Split(s, sep) ==
    LET k == Find(s, sep)
    IN  IF k = 0 THEN <<s>>
        ELSE <<SubSeq(s, 1, k - 1)>> \o Split(SubSeq(s, k + Len(sep), Len(s)), sep)

UpperCase ==
    <<"A","B","C","D","E","F","G","H","I","J","K","L","M",
      "N","O","P","Q","R","S","T","U","V","W","X","Y","Z">>

LowerCase ==
    <<"a","b","c","d","e","f","g","h","i","j","k","l","m",
      "n","o","p","q","r","s","t","u","v","w","x","y","z">>

\* str.lower
Lower(s) ==
    [k \in 1..Len(s) |->
        IF \E j \in 1..26 : UpperCase[j] = s[k]
        THEN LowerCase[CHOOSE j \in 1..26 : UpperCase[j] = s[k]]
        ELSE s[k]]

\* A byte that is not valid UTF-8, and the character it is replaced by
InvalidByte == "<FF>"

ReplacementChar == "<U+FFFD>"

\* bytes.decode('utf-8', errors='replace')
Decode(bytes) ==
    [k \in 1..Len(bytes) |->
        IF bytes[k] = InvalidByte THEN ReplacementChar ELSE bytes[k]]

(***************************************************************************)
(* Literals of the source.                                                 *)
(***************************************************************************)
MultipartFormData ==
    <<"m","u","l","t","i","p","a","r","t","/","f","o","r","m","-","d","a","t","a">>

BoundaryEq == <<"b","o","u","n","d","a","r","y","=">>

ModelsPaths == {"/v1/models", "/v1/models/"}

TranscriptionPaths == {"/v1/audio/transcriptions", "/v1/audio/transcriptions/"}

\* Whisper's input rate (line 116)
TargetRate == 16000

CRLF == <<"\r", "\n">>

DashDash == <<"-", "-">>

ContentDisposition ==
    <<"c","o","n","t","e","n","t","-","d","i","s","p","o","s","i","t","i","o","n",":">>

NameEq == <<"n","a","m","e","=">>

FilenameEq == <<"f","i","l","e","n","a","m","e","=">>

\* The form fields the handler reads (lines 95-102)
FileKey == <<"f","i","l","e">>

LanguageKey == <<"l","a","n","g","u","a","g","e">>

PromptKey == <<"p","r","o","m","p","t">>

TemperatureKey == <<"t","e","m","p","e","r","a","t","u","r","e">>

(***************************************************************************)
(* Request inputs.                                                         *)
(***************************************************************************)

\* Content-Type header values a client may send (CtAbsent: no header, which
\* headers.get('Content-Type', '') reads as '').
CtAbsent == <<>>

CtJson == <<"a","p","p","l","i","c","a","t","i","o","n","/","j","s","o","n">>

CtMultipart == MultipartFormData \o <<";"," ">> \o BoundaryEq \o <<"X">>

CtNoBoundary == MultipartFormData

\* Also: the boundary in quotes, boundary= with an empty value, and the
\* media type in capitals
ContentTypes ==
    {CtAbsent, CtJson, CtMultipart, CtNoBoundary,
     MultipartFormData \o <<";">> \o BoundaryEq \o <<"\"","X","\"">>,
     MultipartFormData \o <<";"," ">> \o BoundaryEq \o <<"\"","\"">>,
     <<"M","u","l","t","i","p","a","r","t","/","F","o","r","m","-","D","a","t","a">>
         \o <<";"," ">> \o BoundaryEq \o <<"X">>}

Methods == {"GET", "POST", "PUT", "DELETE", "HEAD"}

Paths == ModelsPaths \cup TranscriptionPaths \cup {"/", "/v1/models/x"}

\* What soundfile.read makes of an uploaded container: decodable or not,
\* and if so its frame count, channel count and rate.
AudioOk(frames, channels, rate) ==
    [ok |-> TRUE, frames |-> frames, channels |-> channels, rate |-> rate]

AudioBad == [ok |-> FALSE, frames |-> 0, channels |-> 0, rate |-> 0]

\* The audio containers a client uploads: the bytes of each (one opaque
\* block, the last one followed by a line break that belongs to the file)
\* and what the decoder makes of them.
AudioFiles ==
    {[bytes |-> <<"<wav 2x1 16k>">>, audio |-> AudioOk(2, 1, 16000)],
     [bytes |-> <<"<wav 3x2 8k>">>, audio |-> AudioOk(3, 2, 8000)],
     [bytes |-> <<"<wav 0x1 16k>">>, audio |-> AudioOk(0, 1, 16000)],
     [bytes |-> <<"<wav 0x2 8k>">>, audio |-> AudioOk(0, 2, 8000)],
     [bytes |-> <<"<wav 1x1 48k>">>, audio |-> AudioOk(1, 1, 48000)],
     [bytes |-> <<"<wav 16000x1 8k>">>, audio |-> AudioOk(16000, 1, 8000)],
     [bytes |-> <<"<wav 3x1 32k>">>, audio |-> AudioOk(3, 1, 32000)],
     [bytes |-> <<"<wav 5x1 44.1k>">>, audio |-> AudioOk(5, 1, 44100)],
     [bytes |-> <<"<wav 1001x1 8k>">>, audio |-> AudioOk(1001, 1, 8000)],
     [bytes |-> <<"<wav 4x1 16k>", "\r", "\n">>, audio |-> AudioOk(4, 1, 16000)]}

Wav(frames, channels, rate) ==
    (CHOOSE f \in AudioFiles : f.audio = AudioOk(frames, channels, rate)).bytes

\* Line 110: soundfile.read(io.BytesIO(audio_bytes))
sf_read(bytes) ==
    IF \E f \in AudioFiles : f.bytes = bytes
    THEN (CHOOSE f \in AudioFiles : f.bytes = bytes).audio
    ELSE AudioBad

\* One part as the client declares it: the name of its Content-Disposition
\* (<<>>: no name parameter), whether it carries a filename parameter, and
\* its content bytes.
FilePart(name, content) ==
    [name |-> name, filename |-> TRUE, content |-> content]

TextPart(name, text) ==
    [name |-> name, filename |-> FALSE, content |-> text]

\* A request body: bytes before the first delimiter, the parts, and whether
\* the closing delimiter is sent.
Body(preamble, parts, closed) ==
    [preamble |-> preamble, parts |-> parts, closed |-> closed]

Form(parts) == Body(<<>>, parts, TRUE)

\* The boundary the client delimits its parts with
ClientBoundary == <<"X">>

\* The header block of a part as clients write it
PartHeaders(p) ==
    <<"C","o","n","t","e","n","t","-","D","i","s","p","o","s","i","t","i","o","n",":",
      " ","f","o","r","m","-","d","a","t","a">>
    \o (IF p.name # <<>>
        THEN <<";", " ">> \o NameEq \o <<"\"">> \o p.name \o <<"\"">>
        ELSE <<>>)
    \o (IF p.filename
        THEN <<";", " ">> \o FilenameEq \o <<"\"","a",".","w","a","v","\"">>
             \o CRLF
             \o <<"C","o","n","t","e","n","t","-","T","y","p","e",":",
                  " ","a","u","d","i","o","/","w","a","v">>
        ELSE <<>>)

RECURSIVE PartsWire(_)
PartsWire(parts) ==
    IF parts = <<>> THEN <<>>
    ELSE DashDash \o ClientBoundary \o CRLF
         \o PartHeaders(Head(parts)) \o CRLF \o CRLF
         \o Head(parts).content \o CRLF
         \o PartsWire(Tail(parts))

\* The bytes of the body on the wire (what rfile.read returns, line 91)
Wire(body) ==
    body.preamble \o PartsWire(body.parts)
    \o (IF body.closed THEN DashDash \o ClientBoundary \o DashDash \o CRLF ELSE <<>>)

BodyFile == Form(<<FilePart(FileKey, Wav(2, 1, 16000))>>)

BodyNoFile == Form(<<TextPart(LanguageKey, <<"e","n">>)>>)

BodyEmpty == Body(<<>>, <<>>, FALSE)

\* No delimiter at all
BodyGarbage == Body(<<"j","u","n","k","\r","\n">>, <<>>, FALSE)

\* Bodies with a file field: undecodable audio; a file part without name
\* parameter; the closing delimiter missing; a file and two text fields (one
\* to trim, one with an undecodable byte); the file field sent as a plain
\* text field; a field whose name holds a semicolon; the temperature sent
\* as a file part (kept as bytes)
FileBodies ==
    {Form(<<FilePart(FileKey, <<"j","u","n","k">>)>>),
     Form(<<FilePart(<<>>, Wav(2, 1, 16000))>>),
     Body(<<>>, <<FilePart(FileKey, Wav(2, 1, 16000))>>, FALSE),
     Form(<<FilePart(FileKey, Wav(4, 1, 16000)),
            TextPart(LanguageKey, <<" ","e","n","\t">>),
            TextPart(PromptKey, <<"a"," ",InvalidByte,"\r","\n">>)>>),
     Form(<<TextPart(FileKey, <<"h","i">>)>>),
     Form(<<FilePart(FileKey, Wav(2, 1, 16000)),
            TextPart(<<"a",";","b">>, <<"v">>)>>),
     Form(<<FilePart(FileKey, Wav(2, 1, 16000)),
            FilePart(TemperatureKey, <<" ",".","5"," ">>)>>)}

\* The same name twice: file then file, text then file, file then text; two
\* file fields, then a field whose name starts like theirs
DuplicateBodies ==
    {Form(<<FilePart(FileKey, <<"j","u","n","k">>),
            TextPart(LanguageKey, <<"e","n">>),
            FilePart(FileKey, Wav(2, 1, 16000))>>),
     Form(<<TextPart(FileKey, <<"h","i">>), FilePart(FileKey, Wav(2, 1, 16000))>>),
     Form(<<FilePart(FileKey, Wav(2, 1, 16000)), TextPart(FileKey, <<"h","i">>)>>),
     Form(<<FilePart(FileKey, <<"j","u","n","k">>),
            FilePart(FileKey, Wav(2, 1, 16000)),
            TextPart(FileKey \o <<";","x">>, <<"v">>)>>)}

\* Each audio container as the only part: stereo, audio that decodes to no
\* samples or resamples to none, two seconds at 8 kHz, lengths whose
\* resampled length is not a whole number, and 1001 frames at 8 kHz
\* (exactly 2002 samples at 16 kHz)
AudioBodies == {Form(<<FilePart(FileKey, f.bytes)>>) : f \in AudioFiles}

\* A file with a temperature field
WithTemperature(text) ==
    Form(<<FilePart(FileKey, Wav(2, 1, 16000)), TextPart(TemperatureKey, text)>>)

TemperatureTexts ==
    {<<"0",".","5">>, <<" ","-","1",".","\n">>, <<"1","e","-","1">>,
     <<"1","_","0">>, <<"N","a","N">>, <<"+","i","n","f">>,
     <<>>, <<"h","o","t">>, <<".">>, <<"1","_">>, <<"0",",","5">>,
     <<"1","e">>, <<"0",".","5",InvalidByte>>,
     <<"\f","0",".","5","<U+00A0>">>, <<"<1C>","<U+0661>",VerticalTab>>}

Bodies ==
    {BodyFile, BodyNoFile, BodyEmpty, BodyGarbage}
    \cup FileBodies
    \cup DuplicateBodies
    \cup AudioBodies
    \cup {WithTemperature(t) : t \in TemperatureTexts}

Request(method, path, ctype, clen, body) ==
    [method |-> method, path |-> path, ctype |-> ctype, clen |-> clen, body |-> body]

NoRequest == Request("", "", <<>>, TRUE, BodyEmpty)

\* The requests a client sends: every method on every path, every
\* Content-Type on the transcribe route, every body under a well-formed
\* Content-Type, and one request with an unparsable Content-Length.
Requests ==
    {Request(m, p, CtMultipart, TRUE, BodyFile) : m \in Methods, p \in Paths}
    \cup {Request("POST", "/v1/audio/transcriptions", c, TRUE, BodyFile) :
              c \in ContentTypes}
    \cup {Request("POST", "/v1/audio/transcriptions", CtMultipart, TRUE, b) :
              b \in Bodies}
    \cup {Request("POST", "/v1/audio/transcriptions", CtNoBoundary, TRUE, b) :
              b \in {BodyEmpty, BodyNoFile}}
    \cup {Request("POST", "/v1/audio/transcriptions/", CtMultipart, FALSE, BodyFile)}


\* What the shared engine does on one call: the segments its generator
\* yields, and whether it raises once they are consumed (a call that raises
\* at once has no segments).
Seg1 == <<" ", "h", "i">>

Seg2 == <<" ", "y", "o", " ">>

EngineRun(segs, fails) == [segs |-> segs, fails |-> fails]

NoRun == EngineRun(<<>>, FALSE)

EngineRuns ==
    {EngineRun(<<>>, FALSE), EngineRun(<<Seg1>>, FALSE),
     EngineRun(<<Seg1, Seg2>>, FALSE), EngineRun(<<Seg2, Seg1>>, FALSE),
     EngineRun(<<<<" ", "\n">>, Seg1, Seg1, <<" ", "\n">>>>, FALSE),
     EngineRun(<<<<" ", "\n">>>>, FALSE),
     EngineRun(<<>>, TRUE), EngineRun(<<Seg1>>, TRUE)}

\* The configuration's model_options.local section: the configured model
\* name, or "" when the key is unset.
Configs == {"", "base", "small"}

(***************************************************************************)
(* State.                                                                  *)
(***************************************************************************)
VARIABLES
    local_model,  \* APIServer.local_model: TRUE when an engine was passed in
    config,       \* the configured model name ("" when unset)
    server,       \* APIServer.server: "None" or "srv" (the HTTPServer object)
    thread,       \* APIServer.thread: NoThread, the Thread object that caller
                  \* t made (t), or a Thread object that has ended
    sock,         \* the HTTPServer object's listening socket: "closed" | "listening"
    loop,         \* loop[t]: the thread that the Thread.start() of caller t
                  \* spawned: where it is (pc) and the Thread object it runs
                  \* (of)
    limbo,        \* threading._limbo: the Thread objects started and not yet
                  \* taken out by their thread
    shutdownReq,  \* BaseServer.__shutdown_request of the HTTPServer object
    isShutDown,   \* BaseServer.__is_shut_down (an Event) of that object
    portBusy,     \* host:port is held by some other process
    host,         \* host[t]: where host thread t is in start()/stop()
    log,          \* the last line start()/stop() printed
    conn          \* conn[i]: the handler thread of connection i

vars == <<local_model, config, server, thread, sock, loop, limbo, shutdownReq,
          isShutDown, portBusy, host, log, conn>>

lifecycleVars ==
    <<server, thread, sock, loop, limbo, shutdownReq, isShutDown, log>>

FreeConn ==
    [pc |-> "free", rq |-> NoRequest, model |-> FALSE, guarded |-> FALSE,
     form |-> <<>>, temperature |-> "None", samples |-> 0, kwargs |-> {},
     run |-> NoRun,
     texts |-> <<>>, out |-> <<>>, broken |-> FALSE, err |-> "",
     raises |-> 0, trace |-> <<>>]

\* Values of a reference to a Thread object, besides a caller's number
NoThread == 0

EndedThread == -1

\* No thread spawned. The thread that a Thread.start() spawned is at pc:
\* "boot" (before threading.py line 1034), "limbo" (before 1037), "started"
\* (before run() reads its target, 981), "entering" (in serve_forever, before
\* socketserver.py line 223), "running" (at the test of the loop, 232/235),
\* "accept" (238), "finally" (242), "leaving" (243), "exited" (back in
\* run(), before threading.py line 986).
IdleLoop == [pc |-> "none", of |-> NoThread]

\* A host thread outside start() and stop(). last is the outcome of the
\* call it has returned from, inflight whether a request was in flight when
\* that call was a stop() (both are reset when it enters its next call);
\* ref is the Thread object that the frame of its call holds (lines 231 and
\* 232).
IdleHost == [pc |-> "idle", last |-> "", inflight |-> FALSE, ref |-> NoThread]

\* A handler thread exists for connection i (it holds a reference to the
\* HTTPServer object through handler.server).
InFlight(c) == c.pc # "free"

\* The request is inside local_model.transcribe: between the call and the
\* end of consuming its segments (lines 145-146).
InEngine(c) == c.pc = "engine"

\* Only one HTTPServer object is alive at a time: a second constructor fails
\* while the first object's socket listens, and the socket is closed only
\* when the object is freed (server_close() is never called).

\* The frame of the caller holds the HTTPServer object: between the
\* constructor and the assignment of line 230, and inside shutdown()
\* (line 241).
HoldsServer(h) == h.pc \in {"start_store", "stop_flag", "stop_wait"}

\* The event _started of Thread object r is set: one of its threads is past
\* line 1034 (that thread lives until the object loses its target).
Started(lp, r) ==
    \E u \in DOMAIN lp : lp[u].of = r /\ lp[u].pc \notin {"none", "boot"}

\* A thread that is inside serve_forever: its frame holds the HTTPServer
\* object.
InLoop(l) == l.pc \in {"entering", "running", "accept", "finally", "leaving"}

\* CPython frees the HTTPServer object, and with it closes the listening
\* socket, when the last reference to it goes: APIServer.server, the frame
\* of a caller, a thread inside serve_forever, every live handler, and every
\* Thread object that still has its target (one that APIServer.thread, the
\* frame of a caller or a thread refers to; a Thread object that was never
\* started is freed with the last of these references).
Referenced(srv, thrd, lp, hs, cs) ==
    \/ srv = "srv"
    \/ thrd > NoThread
    \/ \E u \in DOMAIN lp : lp[u].of > NoThread \/ InLoop(lp[u])
    \/ \E u \in DOMAIN hs : hs[u].ref > NoThread \/ HoldsServer(hs[u])
    \/ \E i \in DOMAIN cs : InFlight(cs[i])

SockAfter(sk, srv, thrd, lp, hs, cs) ==
    IF sk = "listening" /\ Referenced(srv, thrd, lp, hs, cs) THEN "listening"
    ELSE "closed"

\* A step that leaves the handle srv, the thread reference thrd, the
\* threads lp, the callers hs and the socket sk, before the objects without
\* a reference are freed.
Settle(srv, thrd, lp, hs, sk) ==
    /\ server' = srv
    /\ thread' = thrd
    /\ host' = hs
    /\ loop' = lp
    /\ sock' = SockAfter(sk, srv, thrd, lp, hs, conn)

\* Some serving thread is in the accept loop of serve_forever
Serving == \E t \in DOMAIN loop : loop[t].pc \in {"running", "accept"}

(***************************************************************************)
(* Responses (send_json_response / send_error_response, lines 31-48).      *)
(***************************************************************************)

\* A response under way: hdr when the status line and headers were written
\* (end_headers), body when the body was (wfile.write).
Response(status, kind, message) ==
    [status |-> status, kind |-> kind, message |-> message,
     hdr |-> FALSE, body |-> FALSE]

\* send_json_response(data, status): start writing; the bytes go out in
\* WriteHeaders and WriteBody.
send_json_response(c, status, kind, message) ==
    [c EXCEPT !.out = Append(@, Response(status, kind, message)),
              !.pc = "w_hdr"]

\* send_error_response(message, status=400)
send_error_response(c, message, status) ==
    send_json_response(c, status, "error", message)

\* Variant: a failed engine call is made once more before the error is
\* reported.
ExceptRetry(c, stage) ==
    IF c.pc = "engine" /\ c.raises = 0
    THEN [c EXCEPT !.pc = "invoke", !.texts = <<>>, !.err = stage,
                   !.raises = c.raises + 1]
    ELSE send_error_response([c EXCEPT !.guarded = FALSE, !.err = stage,
                                       !.raises = c.raises + 1],
                             <<"Transcription failed: ", stage>>, 500)

\* Variant: the except clause answers with send_error_response's default
\* status.
ExceptDefaultStatus(c, stage) ==
    send_error_response([c EXCEPT !.guarded = FALSE, !.err = stage,
                                  !.raises = c.raises + 1],
                        <<"Transcription failed: ", stage>>, 400)

\* The except clause of handle_transcription (lines 153-155): entered by an
\* exception raised at `stage` inside the try body.
Except(c, stage) ==
    send_error_response([c EXCEPT !.guarded = FALSE, !.err = stage,
                                  !.raises = c.raises + 1],
                        <<"Transcription failed: ", stage>>, 500)

\* An exception raised outside the try body leaves the handler; socketserver
\* (process_request_thread) reports it and closes the connection.
Escape(c, stage) ==
    [c EXCEPT !.pc = "dropped", !.err = stage, !.raises = c.raises + 1]

\* Variant: no try/except around the handler body.
RaiseUncaught(c, stage) == Escape(c, stage)

Raise(c, stage) == IF c.guarded THEN Except(c, stage) ELSE Escape(c, stage)

(***************************************************************************)
(* parse_multipart (lines 157-208).                                        *)
(***************************************************************************)

\* Lines 159-164: the boundary token of the Content-Type: that of the first
\* `;`-separated piece that, trimmed, starts with boundary=; <<>> when none.
Boundary(content_type) ==
    LET pieces == SplitOn(content_type, ";")
        part(k) == Strip(pieces[k], Whitespace)
        hits == {k \in 1..Len(pieces) : StartsWith(part(k), BoundaryEq)}
    IN  IF hits = {} THEN <<>>
        ELSE LET first == CHOOSE k \in hits : \A m \in hits : k <= m
             IN  Strip(SubSeq(part(first), Len(BoundaryEq) + 1, Len(part(first))),
                       {"\""})

\* dict[name] = value: an existing key keeps its place, a new one is appended
DictSet(d, entry) ==
    IF \E k \in 1..Len(d) : d[k].name = entry.name
    THEN [k \in 1..Len(d) |-> IF d[k].name = entry.name THEN entry ELSE d[k]]
    ELSE Append(d, entry)

DictHas(d, name) == \E k \in 1..Len(d) : d[k].name = name

DictGet(d, name) == d[CHOOSE k \in 1..Len(d) : d[k].name = name]

\* Lines 190-200: the name and the file flag declared by the header block.
\* Every line that, lower-cased, starts with content-disposition: is cut at
\* its semicolons; each trimmed item that starts with name= sets the name
\* (quotes trimmed), each that starts with filename= sets the file flag.
\* A name never set (None) is <<>> here: `if name` treats both alike.
Disposition(headers) ==
    LET lines == Split(headers, CRLF)
        cd == {l \in 1..Len(lines) :
                   StartsWith(Lower(lines[l]), ContentDisposition)}
        items(l) == SplitOn(lines[l], ";")
        item(l, k) == Strip(items(l)[k], Whitespace)
        all == {<<l, k>> : l \in cd, k \in 1..Len(headers)}
        at == {lk \in all : lk[2] <= Len(items(lk[1]))}
        names == {lk \in at : StartsWith(item(lk[1], lk[2]), NameEq)}
        last == CHOOSE lk \in names :
                    \A o \in names : \/ o[1] < lk[1]
                                     \/ o[1] = lk[1] /\ o[2] <= lk[2]
    IN  [name |-> IF names = {} THEN <<>>
                  ELSE Strip(SubSeq(item(last[1], last[2]), Len(NameEq) + 1,
                                    Len(item(last[1], last[2]))),
                             {"\""}),
         is_file |-> \E lk \in at : StartsWith(item(lk[1], lk[2]), FilenameEq)]

\* Lines 174-206: the pieces between delimiters, in body order.
RECURSIVE ParseParts(_, _)
ParseParts(parts, result) ==
    IF parts = <<>> THEN result
    ELSE LET raw == Head(parts)
             part1 == IF StartsWith(raw, CRLF) THEN SubSeq(raw, 3, Len(raw)) ELSE raw
             part == IF EndsWith(part1, CRLF)
                     THEN SubSeq(part1, 1, Len(part1) - 2) ELSE part1
             cut == Find(part, CRLF \o CRLF)
             content == SubSeq(part, cut + 4, Len(part))
             d == Disposition(Decode(SubSeq(part, 1, cut - 1)))
             entry == [name |-> d.name, is_file |-> d.is_file,
                       content |-> IF d.is_file THEN content
                                   ELSE Strip(Decode(content), Whitespace)]
             skipped == \/ raw = <<>>
                        \/ raw = DashDash \o CRLF
                        \/ Strip(raw, AsciiWhitespace) = DashDash
                        \/ cut = 0
         IN  ParseParts(Tail(parts),
                        IF skipped \/ d.name = <<>> THEN result
                        ELSE DictSet(result, entry))

\* Boundary, tabulated once over the Content-Types a client sends.
BoundaryOf == [ct \in ContentTypes |-> Boundary(ct)]

\* Line 166: `if not boundary: raise ValueError`
parse_multipart_raises(content_type) == BoundaryOf[content_type] = <<>>

\* Lines 169-208
parse_multipart(body, content_type) ==
    ParseParts(Split(body, DashDash \o Boundary(content_type)), <<>>)

\* parse_multipart, tabulated once over the bodies and Content-Types a
\* client sends.
FormOf ==
    [ct \in {c \in ContentTypes : ~parse_multipart_raises(c)} |->
        [b \in Bodies |-> parse_multipart(Wire(b), ct)]]

(***************************************************************************)
(* Audio normalisation (lines 110-125).                                    *)
(***************************************************************************)

\* Line 110: io.BytesIO raises TypeError when form_data['file'] is text (a
\* part without filename=); soundfile.read raises on undecodable bytes.
BytesIORaises(entry) == ~entry.is_file

DecodeRaises(entry) == ~sf_read(entry.content).ok

\* Python floats are IEEE 754 doubles. A positive double is written here as
\* [m, e]: its value is m * 2^(e - 52), with the 53-bit significand m held
\* in three limbs <<a, b, c>>, m = a * 2^36 + b * 2^18 + c, so that every
\* intermediate result fits the integers of the checker. Frame counts and
\* rates are below 2^29 and target lengths below 2^31.
Limb == 262144

\* 16 * m + digit
ShiftIn(m, digit) ==
    LET c2 == 16 * m[3] + digit
        b2 == 16 * m[2] + c2 \div Limb
    IN  <<16 * m[1] + b2 \div Limb, b2 % Limb, c2 % Limb>>

\* m + k, for a small k
AddLow(m, k) ==
    LET c2 == m[3] + k
        b2 == m[2] + c2 \div Limb
    IN  <<m[1] + b2 \div Limb, b2 % Limb, c2 % Limb>>

\* The e with 2^e <= n / r < 2^(e + 1)
FloatExponent(n, r) ==
    IF n >= r
    THEN CHOOSE e \in 0..29 : n \div 2^e >= r /\ n \div 2^(e + 1) < r
    ELSE -(CHOOSE k \in 1..30 :
               n > (r - 1) \div 2^k /\ n <= (r - 1) \div 2^(k - 1))

\* Long division: k more hexadecimal digits of the quotient of rem by d,
\* shifted into m (rem < d < 2^27)
RECURSIVE Quotient(_, _, _, _)
Quotient(m, rem, d, k) ==
    IF k = 0 THEN [m |-> m, rem |-> rem]
    ELSE Quotient(ShiftIn(m, (16 * rem) \div d), (16 * rem) % d, d, k - 1)

\* n / r for two positive ints: the quotient rounded to the nearest double,
\* ties to the even significand
FloatDiv(n, r) ==
    LET e == FloatExponent(n, r)
        num == IF e >= 0 THEN n ELSE n * 2^(-e)
        den == IF e >= 0 THEN r * 2^e ELSE r
        q == Quotient(<<0, 0, 1>>, num - den, den, 13)
        up == \/ 2 * q.rem > den
              \/ 2 * q.rem = den /\ q.m[3] % 2 = 1
    IN  [m |-> IF up THEN AddLow(q.m, 1) ELSE q.m, e |-> e]

\* x * 16000 for a positive double x: the product rounded to the nearest
\* double. 16000 = 125 * 2^7; the product by 125 has 6 or 7 bits too many,
\* which are rounded away (the significand returned keeps them as zeros).
FloatTimes16000(x) ==
    LET c2 == x.m[3] * 125
        b2 == x.m[2] * 125 + c2 \div Limb
        p == <<x.m[1] * 125 + b2 \div Limb, b2 % Limb, c2 % Limb>>
        d == IF p[1] >= 2^23 THEN 7 ELSE 6
        low == p[3] % 2^d
        up == \/ low > 2^(d - 1)
              \/ low = 2^(d - 1) /\ (p[3] \div 2^d) % 2 = 1
    IN  [m |-> AddLow(<<p[1], p[2], p[3] - low>>, IF up THEN 2^d ELSE 0),
         e |-> x.e + 7]

\* int(x) for a positive double below 2^31: the integer part
FloatInt(x) ==
    LET t == 52 - x.e IN
    IF t >= 36
    THEN IF t - 36 > 30 THEN 0 ELSE x.m[1] \div 2^(t - 36)
    ELSE x.m[1] * 2^(36 - t) + x.m[2] \div 2^(t - 18)

\* Lines 117-118: target_length = int(duration * 16000); int() truncates.
\* The float product may fall just below an integer that the exact quotient
\* reaches (1001 frames at 8000 Hz: 2001.9999999999998).
TargetLength(frames, rate) ==
    IF frames = 0 THEN 0 ELSE FloatInt(FloatTimes16000(FloatDiv(frames, rate)))

\* Lines 119-123: numpy.interp raises ValueError on an empty array of sample
\* points.
ResampleRaises(audio) == audio.rate # TargetRate /\ audio.frames = 0

\* The number of samples handed to the engine: down-mixing keeps the frame
\* count, resampling replaces it by the target length.
NormalizedLength(audio) ==
    IF audio.rate # TargetRate
    THEN TargetLength(audio.frames, audio.rate)
    ELSE audio.frames

(***************************************************************************)
(* Temperature (lines 102-108, 137-138).                                   *)
(***************************************************************************)
Digits == {"0", "1", "2", "3", "4", "5", "6", "7", "8", "9"}

\* digitpart of Python's float grammar: digits, single underscores between
DigitPart(t) ==
    /\ t # <<>>
    /\ \A k \in 1..Len(t) : t[k] \in Digits \cup {"_"}
    /\ t[1] \in Digits /\ t[Len(t)] \in Digits
    /\ \A k \in 1..(Len(t) - 1) : ~(t[k] = "_" /\ t[k + 1] = "_")

\* digitpart, or digits around one point with at least one side present
PointFloat(t) ==
    LET k == Find(t, <<".">>)
        left == SubSeq(t, 1, k - 1)
        right == SubSeq(t, k + 1, Len(t))
    IN  IF k = 0 THEN DigitPart(t)
        ELSE /\ left = <<>> \/ DigitPart(left)
             /\ right = <<>> \/ DigitPart(right)
             /\ left # <<>> \/ right # <<>>

Unsigned(t) == IF t # <<>> /\ t[1] \in {"+", "-"} THEN Tail(t) ELSE t

\* Decimal digits outside ASCII that float() accepts in a str: the
\* Arabic-Indic digits U+0660-U+0669 stand for the category Nd here.
WideDigits ==
    <<"<U+0660>", "<U+0661>", "<U+0662>", "<U+0663>", "<U+0664>",
      "<U+0665>", "<U+0666>", "<U+0667>", "<U+0668>", "<U+0669>">>

\* float(str) first rewrites the text (PyUnicode's
\* TransformDecimalAndSpaceToASCII): white space outside ASCII becomes a
\* space, a decimal digit outside ASCII its ASCII digit; characters below
\* 127 stay, the separators 0x1C-0x1F with them.
FloatAscii(value) ==
    [k \in 1..Len(value) |->
        IF value[k] \in WideWhitespace THEN " "
        ELSE IF \E j \in 1..10 : WideDigits[j] = value[k]
        THEN <<"0", "1", "2", "3", "4", "5", "6", "7", "8", "9">>
                 [CHOOSE j \in 1..10 : WideDigits[j] = value[k]]
        ELSE value[k]]

\* float(value) does not raise ValueError (lines 104-108). value is a str
\* (a text part) or bytes (is_file: a part sent with filename=, read as
\* given). Surrounding ASCII white space is skipped; then an optional sign
\* and inf, infinity or nan in any case, or a decimal number with an
\* optional exponent.
FloatParses(value, is_file) ==
    LET ascii == IF is_file THEN value ELSE FloatAscii(value)
        t == Unsigned(Strip(ascii, AsciiWhitespace))
        e == Find(Lower(t), <<"e">>)
    IN  \/ Lower(t) \in {<<"i","n","f">>, <<"n","a","n">>,
                         <<"i","n","f","i","n","i","t","y">>}
        \/ e = 0 /\ PointFloat(t)
        \/ /\ e > 0
           /\ PointFloat(SubSeq(t, 1, e - 1))
           /\ DigitPart(Unsigned(SubSeq(t, e + 1, Len(t))))

\* Lines 102-108: "None" when the field is absent or does not parse, else
\* "float"
Temperature(form) ==
    IF DictHas(form, TemperatureKey)
       /\ FloatParses(DictGet(form, TemperatureKey).content,
                      DictGet(form, TemperatureKey).is_file)
    THEN "float"
    ELSE "None"

(***************************************************************************)
(* The handler of one connection (TranscriptionHandler).                   *)
(***************************************************************************)
Did(c, stage) == [c EXCEPT !.trace = Append(@, stage)]

\* Variant: the list names the default model, whatever is configured.
handle_list_models_default(c) ==
    send_json_response(c, 200, "models", <<"whisper-local">>)

\* Lines 64-76: the body's data array, as the sequence of its model ids
handle_list_models(c) ==
    send_json_response(c, 200, "models",
                       <<IF config = "" THEN "whisper-local" ELSE config>>)

\* Lines 50-55
do_GET(c) ==
    IF c.rq.path \in ModelsPaths
    THEN handle_list_models(c)
    ELSE send_error_response(c, "Not found", 404)

\* Variant: the Content-Type is checked before the engine handle.
handle_transcription_ctype_first(c) ==
    IF ~Contains(c.rq.ctype, MultipartFormData)
    THEN send_error_response(c, "Content-Type must be multipart/form-data", 400)
    ELSE IF ~c.model
    THEN send_error_response(c, "Local model not available", 503)
    ELSE [c EXCEPT !.pc = "read", !.guarded = TRUE]

\* Variant: the Content-Type is not checked.
handle_transcription_any_ctype(c) ==
    IF ~c.model
    THEN send_error_response(c, "Local model not available", 503)
    ELSE [c EXCEPT !.pc = "read", !.guarded = TRUE]

\* Lines 78-89: the checks made before the try block; a request that passes
\* them goes on to read its body inside the try block.
handle_transcription(c) ==
    IF ~c.model
    THEN send_error_response(c, "Local model not available", 503)
    ELSE IF ~Contains(c.rq.ctype, MultipartFormData)
    THEN send_error_response(c, "Content-Type must be multipart/form-data", 400)
    ELSE [c EXCEPT !.pc = "read", !.guarded = TRUE]

\* Lines 57-62
do_POST(c) ==
    IF c.rq.path \in TranscriptionPaths
    THEN handle_transcription(c)
    ELSE send_error_response(c, "Not found", 404)

\* BaseHTTPRequestHandler.send_error: the library's own error page, an HTML
\* body after the headers.
send_error(c, status, message) ==
    [c EXCEPT !.out = Append(@, Response(status, "html", message)),
              !.pc = "w_hdr"]

\* BaseHTTPRequestHandler.handle_one_request for a handler class that
\* defines do_GET and do_POST only (lines 50, 57): any other method gets
\* the library's 501 page.
handle_one_request(c) ==
    IF c.rq.method = "GET" THEN do_GET(c)
    ELSE IF c.rq.method = "POST" THEN do_POST(c)
    ELSE send_error(c, 501, "Unsupported method")

Dispatch(i) ==
    /\ conn[i].pc = "route"
    /\ conn' = [conn EXCEPT ![i] = handle_one_request(conn[i])]
    /\ UNCHANGED <<local_model, config, lifecycleVars, portBusy, host>>

\* Lines 90-91: int(Content-Length) raises on an unparsable header; the read
\* returns the body, or raises when the client resets the connection.
ReadBody(i) ==
    LET c == conn[i] IN
    /\ c.pc = "read"
    /\ \/ /\ ~c.rq.clen
          /\ conn' = [conn EXCEPT ![i] = Raise(c, "invalid literal for int()")]
       \/ /\ c.rq.clen
          /\ conn' = [conn EXCEPT ![i] = [Did(c, "read") EXCEPT !.pc = "parse"]]
       \/ /\ c.rq.clen
          /\ conn' = [conn EXCEPT ![i] =
                         Raise([Did(c, "read") EXCEPT !.broken = TRUE],
                               "Connection reset by peer")]
    /\ UNCHANGED <<local_model, config, lifecycleVars, portBusy, host>>

\* Line 93
ParseBody(i) ==
    LET c == conn[i] IN
    /\ c.pc = "parse"
    /\ conn' = [conn EXCEPT ![i] =
                   IF parse_multipart_raises(c.rq.ctype)
                   THEN Raise(Did(c, "parse"), "No boundary found in Content-Type")
                   ELSE [Did(c, "parse") EXCEPT
                             !.form = FormOf[c.rq.ctype][c.rq.body],
                             !.pc = "build"]]
    /\ UNCHANGED <<local_model, config, lifecycleVars, portBusy, host>>

\* Variant: no test for the file field; form_data['file'] raises KeyError.
BuildRequestUnchecked(i) ==
    LET c == conn[i] IN
    /\ c.pc = "build"
    /\ conn' = [conn EXCEPT ![i] =
                   IF ~DictHas(c.form, FileKey)
                   THEN Raise(Did(c, "build"), "'file'")
                   ELSE [Did(c, "build") EXCEPT
                             !.temperature = Temperature(c.form),
                             !.pc = "audio"]]
    /\ UNCHANGED <<local_model, config, lifecycleVars, portBusy, host>>

\* Lines 95-108: the file field is required; the temperature is optional.
BuildRequest(i) ==
    LET c == conn[i] IN
    /\ c.pc = "build"
    /\ conn' = [conn EXCEPT ![i] =
                   IF ~DictHas(c.form, FileKey)
                   THEN send_error_response(Did(c, "build"),
                                            "Missing required field: file", 400)
                   ELSE [Did(c, "build") EXCEPT
                             !.temperature = Temperature(c.form),
                             !.pc = "audio"]]
    /\ UNCHANGED <<local_model, config, lifecycleVars, portBusy, host>>

\* Lines 110-125: decode, down-mix, resample, cast.
NormalizeAudio(i) ==
    LET c == conn[i]
        entry == DictGet(c.form, FileKey)
    IN
    /\ c.pc = "audio"
    /\ conn' = [conn EXCEPT ![i] =
                   IF BytesIORaises(entry)
                   THEN Raise(Did(c, "audio"),
                              "a bytes-like object is required, not 'str'")
                   ELSE IF DecodeRaises(entry)
                   THEN Raise(Did(c, "audio"), "Error opening audio")
                   ELSE IF ResampleRaises(sf_read(entry.content))
                   THEN Raise(Did(c, "audio"), "array of sample points is empty")
                   ELSE [Did(c, "audio") EXCEPT
                             !.samples = NormalizedLength(sf_read(entry.content)),
                             !.pc = "invoke"]]
    /\ UNCHANGED <<local_model, config, lifecycleVars, portBusy, host>>

\* Variant: the temperature is passed on whatever it is.
transcribe_kwargs_with_temperature(c) ==
    {"audio", "language", "initial_prompt", "condition_on_previous_text",
     "vad_filter", "temperature"}

\* Lines 129-138: the keyword arguments of the call, by their names
transcribe_kwargs(c) ==
    {"audio", "language", "initial_prompt", "condition_on_previous_text",
     "vad_filter"}
    \cup (IF c.temperature # "None" THEN {"temperature"} ELSE {})

\* Variant: the status line and headers of a 200 are sent when the engine
\* is called, before its outcome is known (a streamed response).
EngineCallStreamed(i, run) ==
    LET c == conn[i] IN
    /\ c.pc = "invoke"
    /\ conn' = [conn EXCEPT ![i] =
                   [Did(c, "invoke") EXCEPT
                        !.pc = "engine", !.run = run,
                        !.kwargs = transcribe_kwargs(c),
                        !.out = Append(@, [Response(200, "text", <<>>)
                                               EXCEPT !.hdr = TRUE])]]
    /\ UNCHANGED <<local_model, config, lifecycleVars, portBusy, host>>

\* Line 145: the call into the shared engine. No lock is taken.
EngineCall(i, run) ==
    LET c == conn[i] IN
    /\ c.pc = "invoke"
    /\ conn' = [conn EXCEPT ![i] =
                   [Did(c, "invoke") EXCEPT !.pc = "engine", !.run = run,
                                            !.kwargs = transcribe_kwargs(c)]]
    /\ UNCHANGED <<local_model, config, lifecycleVars, portBusy, host>>

\* Variant: the joined text is sent as it is.
EngineNextUntrimmed(i) ==
    LET c == conn[i] IN
    /\ c.pc = "engine"
    /\ conn' = [conn EXCEPT ![i] =
                   IF Len(c.texts) < Len(c.run.segs)
                   THEN [c EXCEPT !.texts =
                                      Append(c.texts, c.run.segs[Len(c.texts) + 1])]
                   ELSE IF c.run.fails
                   THEN Raise(c, "engine error")
                   ELSE send_json_response(Did(c, "encode"), 200, "text",
                                           Join(c.texts))]
    /\ UNCHANGED <<local_model, config, lifecycleVars, portBusy, host>>

\* Lines 146-151: the segments are consumed one by one, in the order the
\* generator yields them; when it is exhausted the texts are joined,
\* trimmed and sent.
EngineNext(i) ==
    LET c == conn[i] IN
    /\ c.pc = "engine"
    /\ conn' = [conn EXCEPT ![i] =
                   IF Len(c.texts) < Len(c.run.segs)
                   THEN [c EXCEPT !.texts =
                                      Append(c.texts, c.run.segs[Len(c.texts) + 1])]
                   ELSE IF c.run.fails
                   THEN Raise(c, "engine error")
                   ELSE send_json_response(Did(c, "encode"), 200, "text",
                                           Strip(Join(c.texts), Whitespace))]
    /\ UNCHANGED <<local_model, config, lifecycleVars, portBusy, host>>

Last(s) == s[Len(s)]

\* The response under way has a body to write: send_error writes none in
\* answer to HEAD; send_json_response always writes one (line 38).
HasBody(c) == ~(Last(c.out).kind = "html" /\ c.rq.method = "HEAD")

\* Lines 34-37: the status line and headers go out at end_headers, unless
\* the client has gone (the write raises). A response without a body ends
\* here, and the handler returns.
WriteHeaders(i) ==
    LET c == conn[i] IN
    /\ c.pc = "w_hdr"
    /\ \/ /\ ~c.broken
          /\ conn' = [conn EXCEPT ![i] =
                         [c EXCEPT !.out[Len(c.out)].hdr = TRUE,
                                   !.pc = IF HasBody(c) THEN "w_body" ELSE "done"]]
       \/ conn' = [conn EXCEPT ![i] =
                      Raise([c EXCEPT !.broken = TRUE], "Broken pipe")]
    /\ UNCHANGED <<local_model, config, lifecycleVars, portBusy, host>>

\* Line 38: the body goes out, and the handler returns.
WriteBody(i) ==
    LET c == conn[i] IN
    /\ c.pc = "w_body"
    /\ \/ /\ ~c.broken
          /\ conn' = [conn EXCEPT ![i] =
                         [c EXCEPT !.out[Len(c.out)].body = TRUE,
                                   !.pc = "done", !.guarded = FALSE]]
       \/ conn' = [conn EXCEPT ![i] =
                      Raise([c EXCEPT !.broken = TRUE], "Broken pipe")]
    /\ UNCHANGED <<local_model, config, lifecycleVars, portBusy, host>>

\* The handler thread ends and the connection is closed
\* (ThreadingMixIn.process_request_thread: shutdown_request).
Close(i) ==
    /\ conn[i].pc \in {"done", "dropped"}
    /\ conn' = [conn EXCEPT ![i] = FreeConn]
    /\ sock' = SockAfter(sock, server, thread, loop, host, conn')
    /\ UNCHANGED <<local_model, config, server, thread, loop, limbo, shutdownReq,
                   isShutDown, log, portBusy, host>>

(***************************************************************************)
(* The serving threads (ThreadingHTTPServer.serve_forever, started at      *)
(* line 232). Thread._bootstrap_inner: set the event _started, take the    *)
(* object out of _limbo, run(). serve_forever: clear the event; loop while *)
(* the shutdown request is not set; finally reset the request and set the  *)
(* event. Each action is one read or one write of shared state.            *)
(***************************************************************************)

\* threading.py line 1034: the thread that the Thread.start() of caller t
\* spawned sets the event _started of its Thread object.
ServeBoot(t) ==
    /\ loop[t].pc = "boot"
    /\ loop' = [loop EXCEPT ![t].pc = "limbo"]
    /\ UNCHANGED <<local_model, config, server, thread, sock, limbo,
                   shutdownReq, isShutDown, log, portBusy, host, conn>>

\* threading.py line 1037: del _limbo[self]. When a thread of the same
\* Thread object has taken the entry out already, KeyError ends this thread
\* before run().
ServeLimbo(t) ==
    /\ loop[t].pc = "limbo"
    /\ IF loop[t].of \in limbo
       THEN /\ limbo' = limbo \ {loop[t].of}
            /\ Settle(server, thread, [loop EXCEPT ![t].pc = "started"], host,
                      sock)
       ELSE /\ limbo' = limbo
            /\ Settle(server, thread, [loop EXCEPT ![t] = IdleLoop], host, sock)
    /\ UNCHANGED <<local_model, config, shutdownReq, isShutDown, log, portBusy,
                   conn>>

\* threading.py lines 981-982: run() reads the target and calls it
ServeTarget(t) ==
    /\ loop[t].pc = "started"
    /\ loop' = [loop EXCEPT ![t].pc = "entering"]
    /\ UNCHANGED <<local_model, config, server, thread, sock, limbo,
                   shutdownReq, isShutDown, log, portBusy, host, conn>>

\* socketserver.py line 223: serve_forever clears the event
ServeEnter(t) ==
    /\ loop[t].pc = "entering"
    /\ loop' = [loop EXCEPT ![t].pc = "running"]
    /\ isShutDown' = FALSE
    /\ UNCHANGED <<local_model, config, server, thread, sock, limbo,
                   shutdownReq, log, portBusy, host, conn>>

\* socketserver.py lines 232-237: the request flag is not set and select
\* reports a connection. (The test of line 232 and the one of line 235 after
\* the wait are one read here: a test that finds the flag unset has no
\* effect of its own.)
ServeReady(t) ==
    /\ loop[t].pc = "running"
    /\ ~shutdownReq
    /\ \E i \in Conns : conn[i].pc = "free"
    /\ loop' = [loop EXCEPT ![t].pc = "accept"]
    /\ UNCHANGED <<local_model, config, server, thread, sock, limbo,
                   shutdownReq, isShutDown, log, portBusy, host, conn>>

\* Variant: a server that handles each request in the serving thread
\* (HTTPServer without ThreadingMixIn): no accept while a request is handled.
ServeAcceptSerial(i, rq) ==
    \E t \in DOMAIN loop :
        /\ loop[t].pc = "accept"
        /\ \A j \in Conns : conn[j].pc = "free"
        /\ conn' = [conn EXCEPT ![i] =
                       [FreeConn EXCEPT !.pc = "route", !.rq = rq,
                                        !.model = local_model]]
        /\ loop' = [loop EXCEPT ![t].pc = "running"]
        /\ UNCHANGED <<local_model, config, server, thread, sock, limbo,
                       shutdownReq, isShutDown, log, portBusy, host>>

\* socketserver.py line 238: the loop accepts a connection and hands it to
\* a new handler thread, whose handler is built with the engine handle of
\* the moment (line 227); then it is back at the test of the loop.
ServeAccept(i, rq) ==
    \E t \in DOMAIN loop :
        /\ loop[t].pc = "accept"
        /\ conn[i].pc = "free"
        /\ conn' = [conn EXCEPT ![i] =
                       [FreeConn EXCEPT !.pc = "route", !.rq = rq,
                                        !.model = local_model]]
        /\ loop' = [loop EXCEPT ![t].pc = "running"]
        /\ UNCHANGED <<local_model, config, server, thread, sock, limbo,
                       shutdownReq, isShutDown, log, portBusy, host>>

\* socketserver.py lines 232/235: the loop sees the shutdown request and
\* leaves
ServeExit(t) ==
    /\ loop[t].pc = "running"
    /\ shutdownReq
    /\ loop' = [loop EXCEPT ![t].pc = "finally"]
    /\ UNCHANGED <<local_model, config, server, thread, sock, limbo,
                   shutdownReq, isShutDown, log, portBusy, host, conn>>

\* socketserver.py line 242: it resets the request
ServeReset(t) ==
    /\ loop[t].pc = "finally"
    /\ loop' = [loop EXCEPT ![t].pc = "leaving"]
    /\ shutdownReq' = FALSE
    /\ UNCHANGED <<local_model, config, server, thread, sock, limbo,
                   isShutDown, log, portBusy, host, conn>>

\* socketserver.py line 243: it sets the event that shutdown() waits for;
\* serve_forever returns. (A thread whose Thread object has lost its target
\* has nothing left to do but end.)
ServeSet(t) ==
    /\ loop[t].pc = "leaving"
    /\ isShutDown' = TRUE
    /\ Settle(server, thread,
              [loop EXCEPT ![t] = IF @.of = EndedThread THEN IdleLoop
                                  ELSE [@ EXCEPT !.pc = "exited"]],
              host, sock)
    /\ UNCHANGED <<local_model, config, limbo, shutdownReq, log, portBusy,
                   conn>>

\* threading.py line 986: run() deletes the target of its Thread object and
\* the thread ends. From now on the object is one whose thread has ended:
\* it holds no HTTPServer object, its start() raises, and a thread of it
\* that is not inside serve_forever ends without serving.
ServeEnd(t) ==
    LET r == loop[t].of
        Ended(x) == IF x = r THEN EndedThread ELSE x
    IN  /\ loop[t].pc = "exited"
        /\ limbo' = limbo \ {r}
        /\ Settle(server,
                  Ended(thread),
                  [u \in DOMAIN loop |->
                      IF u = t THEN IdleLoop
                      ELSE IF loop[u].of = r
                                /\ ~InLoop(loop[u])
                      THEN IdleLoop
                      ELSE [loop[u] EXCEPT !.of = Ended(@)]],
                  [u \in DOMAIN host |-> [host[u] EXCEPT !.ref = Ended(@)]],
                  sock)
        /\ UNCHANGED <<local_model, config, shutdownReq, isShutDown, log,
                       portBusy, conn>>

(***************************************************************************)
(* APIServer.start (lines 221-236) and APIServer.stop (lines 238-244), as  *)
(* run by host thread t. No lock is taken: each action is one read or one  *)
(* write of the shared state, and the calls of several threads interleave  *)
(* between any two of them.                                                *)
(***************************************************************************)

\* The callers after t has returned with outcome
Return(t, outcome) ==
    [host EXCEPT ![t].pc = "idle", ![t].last = outcome, ![t].ref = NoThread]

\* The callers after t has moved on to pc
Goto(t, pc) == [host EXCEPT ![t].pc = pc]

\* The callers when t enters a call at pc
Call(t, pc) == [host EXCEPT ![t] = [IdleHost EXCEPT !.pc = pc]]

CallStart(t) ==
    /\ host[t].pc = "idle"
    /\ host' = Call(t, "start_check")
    /\ UNCHANGED <<local_model, config, lifecycleVars, portBusy, conn>>

CallStop(t) ==
    /\ host[t].pc = "idle"
    /\ host' = Call(t, "stop_check")
    /\ UNCHANGED <<local_model, config, lifecycleVars, portBusy, conn>>

\* Variant: start() without the `if self.server: return` guard.
StartCheckMissing(t) ==
    /\ host[t].pc = "start_check"
    /\ host' = Goto(t, "start_bind")
    /\ UNCHANGED <<local_model, config, lifecycleVars, portBusy, conn>>

\* Lines 223-224
StartCheck(t) ==
    /\ host[t].pc = "start_check"
    /\ host' = IF server # "None" THEN Return(t, "start_noop")
               ELSE Goto(t, "start_bind")
    /\ UNCHANGED <<local_model, config, lifecycleVars, portBusy, conn>>

\* Variant: start() without the `except OSError` clause.
StartBindUncaught(t) ==
    /\ host[t].pc = "start_bind"
    /\ IF portBusy \/ sock = "listening"
       THEN /\ host' = Return(t, "start_raised")
            /\ UNCHANGED <<sock, shutdownReq, isShutDown>>
       ELSE /\ sock' = "listening"
            /\ shutdownReq' = FALSE
            /\ isShutDown' = FALSE
            /\ host' = Goto(t, "start_store")
    /\ UNCHANGED <<local_model, config, limbo, server, thread, loop, log, portBusy,
                   conn>>

\* Line 230, the constructor: it binds and listens, and a new HTTPServer
\* object is in the hands of the caller; it raises OSError, caught at line
\* 234, when the port is held by another process or by the listening socket
\* of an HTTPServer object of this process that is still alive.
StartBind(t) ==
    /\ host[t].pc = "start_bind"
    /\ IF portBusy \/ sock = "listening"
       THEN /\ host' = Goto(t, "start_failed_print")
            /\ UNCHANGED <<sock, shutdownReq, isShutDown>>
       ELSE /\ sock' = "listening"
            /\ shutdownReq' = FALSE
            /\ isShutDown' = FALSE
            /\ host' = Goto(t, "start_store")
    /\ UNCHANGED <<local_model, config, limbo, server, thread, loop, log, portBusy,
                   conn>>

\* Line 230, the assignment: self.server = the new object
StartStore(t) ==
    /\ host[t].pc = "start_store"
    /\ Settle("srv", thread, loop, Goto(t, "start_thread"), sock)
    /\ UNCHANGED <<local_model, config, limbo, shutdownReq, isShutDown, log, portBusy,
                   conn>>

\* Line 231, the right-hand side: reads self.server (AttributeError, not
\* caught, when it is None by now) and makes a Thread object whose target is
\* the serve_forever of the object read.
StartThread(t) ==
    /\ host[t].pc = "start_thread"
    /\ IF server = "None"
       THEN Settle(server, thread, loop, Return(t, "start_raised"), sock)
       ELSE Settle(server, thread, loop,
                   [host EXCEPT ![t].pc = "start_store_thread", ![t].ref = t],
                   sock)
    /\ UNCHANGED <<local_model, config, limbo, shutdownReq, isShutDown, log,
                   portBusy, conn>>

\* Line 231, the assignment: self.thread = the new Thread object
StartStoreThread(t) ==
    /\ host[t].pc = "start_store_thread"
    /\ Settle(server, host[t].ref, loop,
              [host EXCEPT ![t].pc = "start_read_thread", ![t].ref = NoThread],
              sock)
    /\ UNCHANGED <<local_model, config, limbo, shutdownReq, isShutDown, log,
                   portBusy, conn>>

\* Line 232: reads self.thread (AttributeError when it is None by now)
StartReadThread(t) ==
    /\ host[t].pc = "start_read_thread"
    /\ IF thread = NoThread
       THEN Settle(server, thread, loop, Return(t, "start_raised"), sock)
       ELSE Settle(server, thread, loop,
                   [host EXCEPT ![t].pc = "start_run", ![t].ref = thread], sock)
    /\ UNCHANGED <<local_model, config, limbo, shutdownReq, isShutDown, log,
                   portBusy, conn>>

\* Line 232, Thread.start() of the object read, threading.py line 958:
\* RuntimeError when the event _started is set
StartRun(t) ==
    LET r == host[t].ref IN
    /\ host[t].pc = "start_run"
    /\ IF r = EndedThread \/ Started(loop, r)
       THEN Settle(server, thread, loop, Return(t, "start_raised"), sock)
       ELSE Settle(server, thread, loop, Goto(t, "start_spawn"), sock)
    /\ UNCHANGED <<local_model, config, limbo, shutdownReq, isShutDown, log,
                   portBusy, conn>>

\* threading.py lines 961-964: the object is put into _limbo and a thread
\* is spawned for it. (A thread spawned for an object that has lost its
\* target ends without serving.)
StartSpawn(t) ==
    LET r == host[t].ref IN
    /\ host[t].pc = "start_spawn"
    /\ host' = Goto(t, "start_wait")
    /\ IF r = EndedThread
       THEN UNCHANGED <<loop, limbo>>
       ELSE /\ loop' = [loop EXCEPT ![t] = [pc |-> "boot", of |-> r]]
            /\ limbo' = limbo \cup {r}
    /\ UNCHANGED <<local_model, config, server, thread, sock, shutdownReq,
                   isShutDown, log, portBusy, conn>>

\* threading.py line 969: blocks until the event _started is set;
\* Thread.start() returns and the caller's frame lets go of the object
StartWait(t) ==
    LET r == host[t].ref IN
    /\ host[t].pc = "start_wait"
    /\ r = EndedThread \/ Started(loop, r)
    /\ Settle(server, thread, loop,
              [host EXCEPT ![t].pc = "start_print", ![t].ref = NoThread], sock)
    /\ UNCHANGED <<local_model, config, limbo, shutdownReq, isShutDown, log,
                   portBusy, conn>>

\* Line 233
StartPrint(t) ==
    /\ host[t].pc = "start_print"
    /\ log' = "started"
    /\ host' = Return(t, "start_ok")
    /\ UNCHANGED <<local_model, config, limbo, server, thread, sock, loop, shutdownReq,
                   isShutDown, portBusy, conn>>

\* Line 235
StartFailedPrint(t) ==
    /\ host[t].pc = "start_failed_print"
    /\ log' = "failed"
    /\ host' = Goto(t, "start_failed_clear")
    /\ UNCHANGED <<local_model, config, limbo, server, thread, sock, loop, shutdownReq,
                   isShutDown, portBusy, conn>>

\* Line 236
StartFailedClear(t) ==
    /\ host[t].pc = "start_failed_clear"
    /\ Settle("None", thread, loop, Return(t, "start_failed"), sock)
    /\ UNCHANGED <<local_model, config, limbo, shutdownReq, isShutDown, log, portBusy,
                   conn>>

\* Line 240
StopCheck(t) ==
    /\ host[t].pc = "stop_check"
    /\ host' = IF server = "None" THEN Return(t, "stop_noop")
               ELSE Goto(t, "stop_shutdown")
    /\ UNCHANGED <<local_model, config, lifecycleVars, portBusy, conn>>

\* Line 241: reads self.server (AttributeError when it is None by now) and
\* calls shutdown() of the object read
StopShutdown(t) ==
    /\ host[t].pc = "stop_shutdown"
    /\ IF server = "None"
       THEN Settle(server, thread, loop, Return(t, "stop_raised"), sock)
       ELSE Settle(server, thread, loop,
                   [host EXCEPT ![t].pc = "stop_flag",
                                ![t].inflight = \E i \in Conns : InFlight(conn[i])],
                   sock)
    /\ UNCHANGED <<local_model, config, limbo, shutdownReq, isShutDown, log, portBusy,
                   conn>>

\* shutdown(), first statement: the request flag is set
StopFlag(t) ==
    /\ host[t].pc = "stop_flag"
    /\ shutdownReq' = TRUE
    /\ host' = Goto(t, "stop_wait")
    /\ UNCHANGED <<local_model, config, limbo, server, thread, sock, loop, isShutDown,
                   log, portBusy, conn>>

\* shutdown(), second statement: blocks until the event is set; the call
\* returns and the caller's frame lets go of the HTTPServer object
StopWait(t) ==
    /\ host[t].pc = "stop_wait"
    /\ isShutDown
    /\ Settle(server, thread, loop, Goto(t, "stop_clear"), sock)
    /\ UNCHANGED <<local_model, config, limbo, shutdownReq, isShutDown, log, portBusy,
                   conn>>

\* Line 242. server_close() is never called: the socket is closed only
\* when the HTTPServer object is freed.
StopClear(t) ==
    /\ host[t].pc = "stop_clear"
    /\ Settle("None", thread, loop, Goto(t, "stop_clear_thread"), sock)
    /\ UNCHANGED <<local_model, config, limbo, shutdownReq, isShutDown, log, portBusy,
                   conn>>

\* Line 243
StopClearThread(t) ==
    /\ host[t].pc = "stop_clear_thread"
    /\ Settle(server, NoThread, loop, Goto(t, "stop_print"), sock)
    /\ UNCHANGED <<local_model, config, limbo, shutdownReq, isShutDown, log, portBusy,
                   conn>>

\* Line 244
StopPrint(t) ==
    /\ host[t].pc = "stop_print"
    /\ log' = "stopped"
    /\ host' = Return(t, "stop_done")
    /\ UNCHANGED <<local_model, config, limbo, server, thread, sock, loop, shutdownReq,
                   isShutDown, portBusy, conn>>

(***************************************************************************)
(* The environment: another process takes or frees host:port.              *)
(***************************************************************************)
PortTaken ==
    /\ ~portBusy
    /\ sock = "closed"
    /\ portBusy' = TRUE
    /\ UNCHANGED <<local_model, config, lifecycleVars, host, conn>>

PortFreed ==
    /\ portBusy
    /\ portBusy' = FALSE
    /\ UNCHANGED <<local_model, config, lifecycleVars, host, conn>>

\* The host application stores another model name in the configuration
\* (ui/model_manager.py, lines 294-295).
SetConfig(name) ==
    /\ name # config
    /\ config' = name
    /\ UNCHANGED <<local_model, lifecycleVars, portBusy, host, conn>>

(***************************************************************************)
(* Specifications.                                                         *)
(***************************************************************************)

\* APIServer.__init__ (lines 214-219)
Init ==
    /\ local_model \in BOOLEAN
    /\ config = "base"
    /\ server = "None"
    /\ thread = NoThread
    /\ sock = "closed"
    /\ loop = [t \in Hosts |-> IdleLoop]
    /\ limbo = {}
    /\ shutdownReq = FALSE
    /\ isShutDown = FALSE
    /\ portBusy = FALSE
    /\ host = [t \in Hosts |-> IdleHost]
    /\ log = ""
    /\ conn = [i \in Conns |-> FreeConn]

\* The requests sent while several connections are served at once.
ConcurrentRequests ==
    {Request("GET", "/v1/models", CtAbsent, TRUE, BodyEmpty),
     Request("POST", "/v1/audio/transcriptions", CtMultipart, TRUE, BodyFile)}

\* What the engine does in those runs: one segment, or an exception.
ConcurrentRuns == {EngineRun(<<Seg1>>, FALSE), EngineRun(<<>>, TRUE)}

HostStep(t) ==
    \/ CallStart(t) \/ StartCheck(t) \/ StartBind(t) \/ StartStore(t)
    \/ StartThread(t) \/ StartStoreThread(t) \/ StartReadThread(t)
    \/ StartRun(t) \/ StartSpawn(t) \/ StartWait(t) \/ StartPrint(t)
    \/ StartFailedPrint(t) \/ StartFailedClear(t)
    \/ CallStop(t) \/ StopCheck(t) \/ StopShutdown(t) \/ StopFlag(t)
    \/ StopWait(t) \/ StopClear(t) \/ StopClearThread(t) \/ StopPrint(t)

\* A step of the thread that the Thread.start() of caller t spawned, other
\* than taking a connection
ServeStep(t) ==
    \/ ServeBoot(t) \/ ServeLimbo(t) \/ ServeTarget(t) \/ ServeEnter(t)
    \/ ServeExit(t) \/ ServeReset(t) \/ ServeSet(t) \/ ServeEnd(t)

HandlerStep(i) ==
    \/ Dispatch(i) \/ ReadBody(i) \/ ParseBody(i) \/ BuildRequest(i)
    \/ NormalizeAudio(i) \/ EngineNext(i)
    \/ WriteHeaders(i) \/ WriteBody(i) \/ Close(i)

Next ==
    \/ \E t \in Hosts : HostStep(t)
    \/ \E t \in Hosts : ServeStep(t)
    \/ \E t \in Hosts : ServeReady(t)
    \/ PortTaken
    \/ PortFreed
    \/ \E i \in Conns : \E rq \in ConcurrentRequests : ServeAccept(i, rq)
    \/ \E i \in Conns : \E run \in ConcurrentRuns : EngineCall(i, run)
    \/ \E i \in Conns : HandlerStep(i)

Spec == Init /\ [][Next]_vars

\* One connection at a time, every request and every engine behaviour, on a
\* server that is started and left running.
InitHandler ==
    /\ local_model \in BOOLEAN
    /\ config \in Configs
    /\ server = "None"
    /\ thread = NoThread
    /\ sock = "closed"
    /\ loop = [t \in Hosts |-> IdleLoop]
    /\ limbo = {}
    /\ shutdownReq = FALSE
    /\ isShutDown = FALSE
    /\ portBusy = FALSE
    /\ host = [t \in Hosts |-> IdleHost]
    /\ log = ""
    /\ conn = [i \in Conns |-> FreeConn]

NextHandler ==
    \/ \E t \in Hosts :
           \/ CallStart(t) \/ StartCheck(t) \/ StartBind(t) \/ StartStore(t)
           \/ StartThread(t) \/ StartStoreThread(t) \/ StartReadThread(t)
           \/ StartRun(t) \/ StartSpawn(t) \/ StartWait(t) \/ StartPrint(t)
           \/ ServeBoot(t) \/ ServeLimbo(t) \/ ServeTarget(t)
           \/ ServeEnter(t) \/ ServeReady(t)
    \/ \E name \in Configs \ {""} : SetConfig(name)
    \/ \E rq \in Requests : ServeAccept(1, rq)
    \/ \E run \in EngineRuns : EngineCall(1, run)
    \/ HandlerStep(1)

SpecHandler == InitHandler /\ [][NextHandler]_vars

\* Two threads of the host application that call start() and stop() on the
\* same APIServer at any time, with no request in flight.
Callers == {1, 2}

InitCallers ==
    /\ local_model \in BOOLEAN
    /\ config = "base"
    /\ server = "None"
    /\ thread = NoThread
    /\ sock = "closed"
    /\ loop = [t \in Callers |-> IdleLoop]
    /\ limbo = {}
    /\ shutdownReq = FALSE
    /\ isShutDown = FALSE
    /\ portBusy = FALSE
    /\ host = [t \in Callers |-> IdleHost]
    /\ log = ""
    /\ conn = [i \in Conns |-> FreeConn]

NextCallers ==
    \/ \E t \in Callers : HostStep(t)
    \/ \E t \in Callers : ServeStep(t)

SpecCallers == InitCallers /\ [][NextCallers]_vars

(***************************************************************************)
(* Properties.                                                             *)
(***************************************************************************)
OnTranscribeRoute(c) ==
    c.rq.method = "POST" /\ c.rq.path \in TranscriptionPaths

\* The handler has passed routing (its request is being answered).
Handled(c) == c.pc \notin {"free", "route"}

\* The one response of the request, fully written when the handler is done.
Answered(c, status, kind, message) ==
    /\ Len(c.out) = 1
    /\ c.out[1].status = status
    /\ c.out[1].kind = kind
    /\ c.out[1].message = message
    /\ c.pc = "done" => c.out[1].hdr /\ c.out[1].body

\* stop() leaves the server Stopped: no accept loop, no listening socket,
\* no server handle.
\* A serving thread runs (in the accept loop or on its way to it)
Alive(t) ==
    loop[t].pc \in {"boot", "limbo", "started", "entering", "running", "accept"}

Stopped ==
    /\ server = "None"
    /\ \A t \in DOMAIN loop : ~Alive(t)
    /\ sock = "closed"

\* C1: at most one request is inside local_model.transcribe (between the
\* call and the end of consuming its segments) in every reachable state.
EngineSerialized ==
    Cardinality({i \in Conns : InEngine(conn[i])}) <= 1

\* The request is reading its body, decoding, normalizing or in the engine.
Busy(c) == c.pc \in {"read", "parse", "build", "audio", "engine"}

\* C2: no cross-request lock outside the engine step: while some request is
\* reading its body, decoding, normalizing or inside the engine call, the
\* running listener can accept a connection on any free slot, and every
\* other request that is reading, decoding, building or normalizing can
\* take its step.
NoCrossRequestLock ==
    \A j \in Conns :
        Busy(conn[j]) =>
            \A i \in Conns \ {j} :
                /\ ((\E t \in Hosts : loop[t].pc = "running")
                        /\ ~shutdownReq /\ conn[i].pc = "free")
                       => ENABLED (\E t \in Hosts : ServeReady(t))
                /\ ((\E t \in Hosts : loop[t].pc = "accept")
                        /\ conn[i].pc = "free")
                       => ENABLED (\E rq \in ConcurrentRequests : ServeAccept(i, rq))
                /\ conn[i].pc = "read" => ENABLED ReadBody(i)
                /\ conn[i].pc = "parse" => ENABLED ParseBody(i)
                /\ conn[i].pc = "build" => ENABLED BuildRequest(i)
                /\ conn[i].pc = "audio" => ENABLED NormalizeAudio(i)

\* C2 witness: one request is inside the engine call while another reads its
\* body, and the body reading, decoding and normalizing of two requests
\* overlap.
OverlapReached ==
    \E i, j \in Conns :
        /\ i # j
        /\ conn[i].pc = "engine"
        /\ conn[j].pc = "read"
        /\ Serving

\* Some byte of the response is on the wire
Written(r) == r.hdr \/ r.body

\* C3, as the claim states it: every exception raised while a transcription
\* request is handled is caught in the handler and turned into an error
\* response of that request (the 500 of the except clause is started), and
\* it touches neither the listener nor any other request.
EveryFailureAnswered ==
    [][\A i \in Conns :
          (OnTranscribeRoute(conn[i]) /\ conn'[i].raises > conn[i].raises) =>
              /\ \A j \in Conns \ {i} : conn'[j] = conn[j]
              /\ UNCHANGED <<lifecycleVars, host, portBusy, local_model>>
              /\ conn'[i].pc = "w_hdr"
              /\ Last(conn'[i].out).status = 500
              /\ Last(conn'[i].out).kind = "error"]_vars

\* C3, amended: an exception raised while handling one request changes
\* nothing but that request: the listener, the lifecycle state and every
\* other request are left as they were; raised inside the try block it is
\* caught and turned into a 500 error response of that request; raised
\* while a response is written outside the try block (the 503 and 400 of
\* the checks before it, the 404, the 500 of the except clause itself) it
\* leaves the handler and ends that connection only, with no error response.
FailureIsolated ==
    [][\A i \in Conns :
          conn'[i].raises > conn[i].raises =>
              /\ \A j \in Conns \ {i} : conn'[j] = conn[j]
              /\ UNCHANGED <<lifecycleVars, host, portBusy, local_model>>
              /\ conn[i].guarded =>
                     /\ conn'[i].pc = "w_hdr"
                     /\ Last(conn'[i].out).status = 500
                     /\ Last(conn'[i].out).kind = "error"
              /\ ~conn[i].guarded =>
                     /\ conn'[i].pc = "dropped"
                     /\ conn'[i].out = conn[i].out
                     /\ conn'[i].broken]_vars

\* C3 witness: a request failed in the engine and got its 500 response, and
\* another request failed, lost its client while the 500 of the except
\* clause was written and was dropped without a response, while the accept
\* loop is running.
FailureAnswered ==
    \E i, j \in Conns :
        /\ i # j
        /\ conn[i].pc = "done"
        /\ conn[i].err = "engine error"
        /\ Answered(conn[i], 500, "error", <<"Transcription failed: ", "engine error">>)
        /\ conn[j].pc = "dropped"
        /\ OnTranscribeRoute(conn[j])
        /\ conn[j].raises = 2
        /\ Last(conn[j].out).status = 500
        /\ ~Written(Last(conn[j].out))
        /\ Serving

\* C4: start() on a running server and stop() on a stopped server return
\* at once and change nothing (no bind, no thread, handle unchanged).
StartStopNoOp ==
    [][\A t \in Hosts :
          /\ (host[t].pc = "start_check" /\ server # "None" /\ host'[t] # host[t])
                 => (host'[t].pc = "idle" /\ UNCHANGED <<lifecycleVars, conn>>)
          /\ (host[t].pc = "stop_check" /\ server = "None" /\ host'[t] # host[t])
                 => (host'[t].pc = "idle" /\ UNCHANGED <<lifecycleVars, conn>>)]_vars

\* C4 witness: start() returned as a no-op on the running server.
StartNoOpReached ==
    \E t \in Hosts :
        /\ host[t].pc = "idle"
        /\ host[t].last = "start_noop"
        /\ server = "srv" /\ Serving /\ sock = "listening"

\* C5: a failed bind is caught (no exception reaches the caller), logged,
\* and start() returns with the handle None; no serving thread is made or
\* started on the way, so that the next start() binds again.
BindFailureLeavesStopped ==
    [][\A t \in Hosts :
          /\ (host[t].pc = "start_bind" /\ host'[t] # host[t]
                  /\ (portBusy \/ sock = "listening"))
                 => /\ host'[t].pc = "start_failed_print"
                    /\ UNCHANGED <<server, thread, loop, limbo, sock, conn>>
          /\ (host[t].pc = "start_failed_print" /\ host'[t] # host[t])
                 => /\ host'[t].pc = "start_failed_clear"
                    /\ log' = "failed"
                    /\ UNCHANGED <<server, thread, loop, limbo, sock, conn>>
          /\ (host[t].pc = "start_failed_clear" /\ host'[t] # host[t])
                 => /\ host'[t].pc = "idle"
                    /\ host'[t].last = "start_failed"
                    /\ server' = "None"
                    /\ log' = "failed"
                    /\ UNCHANGED <<thread, loop, limbo, sock, conn>>]_vars

\* C5 witness: after a failed start() (the last line printed), a later
\* start() is at its bind again.
BindRetried ==
    \E t \in Hosts :
        /\ host[t].pc = "start_bind"
        /\ log = "failed"
        /\ server = "None" /\ thread = NoThread

\* C6: when stop() returns on a running server, the accept loop has
\* terminated, the listening socket is closed and the handle is None.
StopReleasesListener ==
    \A t \in Hosts :
        (host[t].pc = "idle" /\ host[t].last = "stop_done") => Stopped

\* C7: stop() called with a request in flight returns and leaves the server
\* Stopped (here: once stop() has returned and the serving thread has ended),
\* while the request completes or is dropped.
StopInFlightLeavesStopped ==
    \A t \in Hosts :
        (host[t].pc = "idle" /\ host[t].last = "stop_done" /\ host[t].inflight
             /\ \A u \in DOMAIN loop : loop[u].pc = "none")
            => Stopped

\* The routing table of the specification.
Routed(rq) ==
    \/ rq.method = "GET" /\ rq.path \in ModelsPaths
    \/ rq.method = "POST" /\ rq.path \in TranscriptionPaths

\* C8: every request that is neither GET on the models route nor POST on
\* the transcribe route is answered 404 with the JSON error envelope, and
\* the engine is not invoked.
UnroutedGets404 ==
    \A i \in Conns :
        (Handled(conn[i]) /\ ~Routed(conn[i].rq))
            => /\ Answered(conn[i], 404, "error", "Not found")
               /\ conn[i].trace = <<>>

\* C9: on the transcribe route without an engine handle the response is 503,
\* whatever the Content-Type and body; the body is never read and neither
\* multipart nor audio decoding is attempted.
NoEngine503BeforeBody ==
    \A i \in Conns :
        (Handled(conn[i]) /\ OnTranscribeRoute(conn[i]) /\ ~conn[i].model)
            => /\ Answered(conn[i], 503, "error", "Local model not available")
               /\ conn[i].trace = <<>>
               /\ conn[i].form = <<>>

\* C9 witness: a 503 was delivered for a request that is not even multipart.
NoEngine503Reached ==
    \E i \in Conns :
        /\ conn[i].pc = "done"
        /\ OnTranscribeRoute(conn[i])
        /\ ~conn[i].model
        /\ conn[i].rq.ctype = CtJson
        /\ conn[i].out[1].status = 503 /\ conn[i].out[1].body

\* C10: on the transcribe route with an engine, a request whose Content-Type
\* does not contain multipart/form-data (or has no Content-Type) is answered
\* 400 with the error envelope; its body is not read, the engine not invoked.
NonMultipart400 ==
    \A i \in Conns :
        (Handled(conn[i]) /\ OnTranscribeRoute(conn[i]) /\ conn[i].model
             /\ ~Contains(conn[i].rq.ctype, MultipartFormData))
            => /\ Answered(conn[i], 400, "error",
                           "Content-Type must be multipart/form-data")
               /\ conn[i].trace = <<>>

\* C10 witness: a request without Content-Type got its 400.
NonMultipart400Reached ==
    \E i \in Conns :
        /\ conn[i].pc = "done"
        /\ OnTranscribeRoute(conn[i])
        /\ conn[i].model
        /\ conn[i].rq.ctype = CtAbsent
        /\ conn[i].out[1].status = 400 /\ conn[i].out[1].body

\* The request went through `stage` (a step of handle_transcription).
Reached(c, stage) == \E k \in 1..Len(c.trace) : c.trace[k] = stage

\* C11: a transcription request whose body decodes to a mapping without a
\* file entry is answered 400 "Missing required field: file": that is the
\* response the handler sends, the only one while the client stays
\* connected, and neither the audio decoder nor the engine is reached.
MissingFile400 ==
    \A i \in Conns :
        (Reached(conn[i], "build") /\ ~DictHas(conn[i].form, FileKey))
            => /\ conn[i].out[1].status = 400
               /\ conn[i].out[1].kind = "error"
               /\ conn[i].out[1].message = "Missing required field: file"
               /\ ~conn[i].broken =>
                      Answered(conn[i], 400, "error", "Missing required field: file")
               /\ ~Reached(conn[i], "audio")
               /\ ~Reached(conn[i], "invoke")

\* C11 witness: a body without any delimiter got its 400.
MissingFile400Reached ==
    \E i \in Conns :
        /\ conn[i].pc = "done"
        /\ conn[i].rq.body = BodyGarbage
        /\ conn[i].form = <<>>
        /\ conn[i].out[1].status = 400 /\ conn[i].out[1].body

\* C12: a transcription request whose Content-Type is multipart/form-data
\* without a boundary parameter is answered 400 with the error envelope,
\* whatever its body.
NoBoundary400 ==
    \A i \in Conns :
        (/\ OnTranscribeRoute(conn[i]) /\ conn[i].model
         /\ Contains(conn[i].rq.ctype, MultipartFormData)
         /\ ~Contains(conn[i].rq.ctype, BoundaryEq)
         /\ Reached(conn[i], "parse"))
            => /\ conn[i].out[1].status = 400
               /\ conn[i].out[1].kind = "error"

\* What failed in the request, by its input: the uploaded file is text or
\* does not decode, it decodes to no frames at a rate that needs
\* resampling, or the engine raised; "" when none of these happened.
Failure(c) ==
    IF ~Reached(c, "audio") THEN ""
    ELSE LET file == DictGet(c.form, FileKey) IN
         IF ~file.is_file
         THEN "a bytes-like object is required, not 'str'"
         ELSE IF ~sf_read(file.content).ok
         THEN "Error opening audio"
         ELSE IF sf_read(file.content).rate # TargetRate
                 /\ sf_read(file.content).frames = 0
         THEN "array of sample points is empty"
         ELSE IF Reached(c, "invoke") /\ c.pc # "engine" /\ c.run.fails
         THEN "engine error"
         ELSE ""

\* C13: a failure of the audio decoding, of the down-mix/resampling or of
\* the engine call is answered 500 with the error envelope, its message
\* carrying the description of the failure; it is the only response while
\* the client stays connected, and no success response is started.
FailureIs500 ==
    \A i \in Conns :
        Failure(conn[i]) # "" =>
            /\ conn[i].out[1].status = 500
            /\ conn[i].out[1].kind = "error"
            /\ conn[i].out[1].message = <<"Transcription failed: ", Failure(conn[i])>>
            /\ \A k \in 1..Len(conn[i].out) : conn[i].out[k].status # 200
            /\ ~conn[i].broken =>
                   Answered(conn[i], 500, "error",
                            <<"Transcription failed: ", Failure(conn[i])>>)

\* C13 witness: a 500 was delivered for an engine that raised after it had
\* produced a segment.
FailureIs500Reached ==
    \E i \in Conns :
        /\ conn[i].pc = "done"
        /\ Failure(conn[i]) = "engine error"
        /\ conn[i].texts = <<Seg1>>
        /\ conn[i].out[1].status = 500 /\ conn[i].out[1].body

\* C14: for every handled request exactly one response is written: no byte
\* of a response is on the wire while the request is still being processed
\* (the status line goes out only once the outcome is known), a response
\* started after another one never gets a byte onto the wire, and a handler
\* that has returned has written its one response in full.
OneResponseWritten ==
    \A i \in Conns :
        /\ \A k \in 1..Len(conn[i].out) :
               Written(conn[i].out[k]) =>
                   /\ k = 1
                   /\ \/ conn[i].pc \in {"w_body", "done", "dropped"}
                      \/ conn[i].pc = "w_hdr" /\ Len(conn[i].out) = 2
        /\ conn[i].pc = "done" =>
               /\ Len(conn[i].out) = 1
               /\ conn[i].out[1].hdr
               /\ HasBody(conn[i]) => conn[i].out[1].body

\* C14 witness: the head of the 200 went out, the write of its body failed
\* (client gone), and the 500 that the except clause started after it never
\* got a byte onto the wire.
SecondResponseUnwritten ==
    \E i \in Conns :
        /\ conn[i].pc = "dropped"
        /\ Len(conn[i].out) = 2
        /\ conn[i].out[1].status = 200
        /\ conn[i].out[1].hdr /\ ~conn[i].out[1].body
        /\ conn[i].out[2].status = 500
        /\ ~Written(conn[i].out[2])

OnModelsRoute(c) == c.rq.method = "GET" /\ c.rq.path \in ModelsPaths

\* C15: GET on the models route, with or without an engine, is answered 200
\* with a data array of exactly one element, whose id is the model name the
\* configuration holds when the request is handled (the default name when
\* none is set); handling the request leaves the configuration unchanged.
ModelsListConfigured ==
    /\ [](\A i \in Conns :
             (Handled(conn[i]) /\ OnModelsRoute(conn[i]))
                 => /\ Len(conn[i].out) = 1
                    /\ conn[i].out[1].status = 200
                    /\ conn[i].out[1].kind = "models"
                    /\ Len(conn[i].out[1].message) = 1
                    /\ conn[i].pc = "done" =>
                           conn[i].out[1].hdr /\ conn[i].out[1].body)
    /\ [][\A i \in Conns :
             (conn[i].pc = "route" /\ conn'[i].pc # "route"
                  /\ OnModelsRoute(conn[i]))
                 => /\ config # "" => conn'[i].out[1].message = <<config>>
                    /\ config = "" => conn'[i].out[1].message = <<"whisper-local">>
                    /\ config' = config]_vars

\* C15 witness: without an engine, the list was delivered with the name that
\* was configured when the request was handled, and the configuration has
\* been changed since.
ModelsListReached ==
    \E i \in Conns :
        /\ conn[i].pc = "done"
        /\ OnModelsRoute(conn[i]) /\ conn[i].rq.path = "/v1/models/"
        /\ ~conn[i].model
        /\ conn[i].out[1].message = <<"small">> /\ conn[i].out[1].body
        /\ config = "base"

\* parse_multipart has returned: the mapping of the request is conn[i].form
Parsed(c) == c.pc = "build" \/ Reached(c, "build")

\* The body has nothing before its first delimiter, ends with the closing
\* delimiter, and each of its parts declares a name, no two the same.
WellFormed(body) ==
    /\ body.preamble = <<>>
    /\ body.closed
    /\ \A k \in 1..Len(body.parts) : body.parts[k].name # <<>>
    /\ \A k, m \in 1..Len(body.parts) :
           body.parts[k].name = body.parts[m].name => k = m

\* The entry that the part declares: its name; its raw bytes when it has a
\* filename parameter, else its content decoded and trimmed.
Declared(p) ==
    [name |-> p.name, is_file |-> p.filename,
     content |-> IF p.filename THEN p.content
                 ELSE Strip(Decode(p.content), Whitespace)]

\* C16: for a well-formed body with N named parts (names pairwise distinct)
\* the mapping has exactly N entries, one per part and keyed by the name the
\* part declares, holding the raw bytes of a part with a filename parameter
\* and the decoded, trimmed text of any other part.
DecoderKeepsDeclaredParts ==
    \A i \in Conns :
        (Parsed(conn[i]) /\ WellFormed(conn[i].rq.body))
            => /\ Len(conn[i].form) = Len(conn[i].rq.body.parts)
               /\ \A k \in 1..Len(conn[i].rq.body.parts) :
                      /\ DictHas(conn[i].form, conn[i].rq.body.parts[k].name)
                      /\ DictGet(conn[i].form, conn[i].rq.body.parts[k].name)
                             = Declared(conn[i].rq.body.parts[k])

\* The places of the parts of the body that declare `name`
PartsNamed(body, name) ==
    {k \in 1..Len(body.parts) : body.parts[k].name = name}

\* C17: when several parts of a body declare the same name, the mapping has
\* one entry for that name, and it holds the value and the file/text
\* classification of the last of these parts in body order.
LastDuplicateWins ==
    \A i \in Conns :
        Parsed(conn[i]) =>
            \A k \in 1..Len(conn[i].rq.body.parts) :
                LET name == conn[i].rq.body.parts[k].name
                    same == PartsNamed(conn[i].rq.body, name)
                    last == CHOOSE m \in same : \A o \in same : o <= m
                IN  (name # <<>> /\ Cardinality(same) > 1)
                        => /\ Cardinality({e \in 1..Len(conn[i].form) :
                                               conn[i].form[e].name = name}) = 1
                           /\ DictGet(conn[i].form, name)
                                  = Declared(conn[i].rq.body.parts[last])

\* The temperature values of the model that Python's float() accepts
FloatTexts ==
    {<<"0",".","5">>, <<" ","-","1",".","\n">>, <<"1","e","-","1">>,
     <<"1","_","0">>, <<"N","a","N">>, <<"+","i","n","f">>, <<" ",".","5"," ">>,
     <<"\f","0",".","5","<U+00A0>">>, <<"<1C>","<U+0661>",VerticalTab>>}

\* C18: a temperature field that does not parse as a float is no error: the
\* request goes on to the engine call as if the field were absent; the call
\* has a temperature argument exactly when the body has a temperature field
\* (the last one, if several) whose value parses.
TemperatureLenient ==
    \A i \in Conns :
        LET body == conn[i].rq.body
            temps == PartsNamed(body, TemperatureKey)
            last == CHOOSE m \in temps : \A o \in temps : o <= m
        IN  /\ (Reached(conn[i], "build") /\ body \in
                    {WithTemperature(t) : t \in TemperatureTexts})
                   => /\ conn[i].pc \in {"audio", "invoke"} \/ Reached(conn[i], "invoke")
                      /\ conn[i].pc = "audio" => conn[i].out = <<>>
            /\ Reached(conn[i], "invoke")
                   => ("temperature" \in conn[i].kwargs
                           <=> /\ temps # {}
                               /\ body.parts[last].content \in FloatTexts)

\* C18 witness: a request whose temperature is the text hot was transcribed
\* and answered 200, the engine called without a temperature argument.
TemperatureIgnoredReached ==
    \E i \in Conns :
        /\ conn[i].pc = "done"
        /\ conn[i].rq.body = WithTemperature(<<"h","o","t">>)
        /\ "temperature" \notin conn[i].kwargs /\ "audio" \in conn[i].kwargs
        /\ conn[i].out[1].status = 200 /\ conn[i].out[1].body

\* `text` is `joined` without its leading and trailing white space: some
\* white space, then text, then some white space make up joined, and text
\* neither starts nor ends with white space.
Trimmed(text, joined) ==
    \E a, b \in 0..Len(joined) :
        /\ a + b <= Len(joined)
        /\ text = SubSeq(joined, a + 1, Len(joined) - b)
        /\ \A k \in 1..a : joined[k] \in Whitespace
        /\ \A k \in (Len(joined) - b + 1)..Len(joined) : joined[k] \in Whitespace
        /\ text # <<>> => text[1] \notin Whitespace /\ text[Len(text)] \notin Whitespace

\* C19: the text of a success response is the texts of all the segments the
\* engine emitted for the request, concatenated in emission order, without
\* the leading and trailing white space of the whole.
TextIsJoinedSegments ==
    \A i \in Conns :
        \A k \in 1..Len(conn[i].out) :
            conn[i].out[k].status = 200 /\ conn[i].out[k].kind = "text"
                => /\ k = 1
                   /\ ~conn[i].run.fails
                   /\ conn[i].texts = conn[i].run.segs
                   /\ Trimmed(conn[i].out[k].message, Join(conn[i].run.segs))

\* C19 witness: two segments were emitted and the response holds both, in
\* order, with the space between them and none around.
TextIsJoinedReached ==
    \E i \in Conns :
        /\ conn[i].pc = "done"
        /\ conn[i].run.segs = <<Seg1, Seg2>>
        /\ conn[i].out[1].status = 200 /\ conn[i].out[1].body
        /\ conn[i].out[1].message = <<"h", "i", " ", "y", "o">>

\* C20: the audio buffer of every engine call has at least one sample; a
\* file that decodes, or decodes and resamples, to no samples ends in an
\* error response without an engine call.
EngineAudioNonEmpty ==
    \A i \in Conns :
        /\ Reached(conn[i], "invoke") => conn[i].samples > 0
        /\ (/\ Reached(conn[i], "audio")
            /\ DictGet(conn[i].form, FileKey).is_file
            /\ sf_read(DictGet(conn[i].form, FileKey).content).ok
            /\ NormalizedLength(sf_read(DictGet(conn[i].form, FileKey).content)) = 0)
               => /\ ~Reached(conn[i], "invoke")
                  /\ conn[i].pc = "done" => conn[i].out[1].kind = "error"

\* round(a / b) for whole numbers a >= 0 and b > 0 (halves go to the even
\* neighbour, as Python's round does)
Bit(m, i) ==
    IF i < 18 THEN (m[3] \div 2^i) % 2
    ELSE IF i < 36 THEN (m[2] \div 2^(i - 18)) % 2
    ELSE IF i - 36 > 30 THEN 0
    ELSE (m[1] \div 2^(i - 36)) % 2

\* Some bit of m below bit j is set
BitsBelow(m, j) ==
    \/ IF j >= 18 THEN m[3] # 0 ELSE m[3] % 2^j # 0
    \/ j > 18 /\ (IF j >= 36 THEN m[2] # 0 ELSE m[2] % 2^(j - 18) # 0)
    \/ j > 36 /\ (IF j - 36 > 30 THEN m[1] # 0 ELSE m[1] % 2^(j - 36) # 0)

\* round(x) for a positive double below 2^31: to the nearest integer, a tie
\* to the even one
FloatRound(x) ==
    LET t == 52 - x.e
        q == FloatInt(x)
        half == Bit(x.m, t - 1) = 1
        rest == BitsBelow(x.m, t - 1)
    IN  IF ~half THEN q
        ELSE IF rest THEN q + 1
        ELSE IF q % 2 = 0 THEN q ELSE q + 1

\* round(len(samples) / native_sample_rate * 16000)
RoundedLength(frames, rate) ==
    IF frames = 0 THEN 0 ELSE FloatRound(FloatTimes16000(FloatDiv(frames, rate)))

\* The decoded upload of the request
Upload(c) == sf_read(DictGet(c.form, FileKey).content)

\* C21: audio at another rate than 16000 reaches the engine with exactly
\* round(frames / rate * 16000) samples (two seconds at 8 kHz: within one
\* of 32000), and audio at 16000 Hz with its frame count unchanged.
ResampleLengthRounded ==
    \A i \in Conns :
        Reached(conn[i], "invoke") =>
            /\ Upload(conn[i]).rate # TargetRate =>
                   conn[i].samples
                       = RoundedLength(Upload(conn[i]).frames, Upload(conn[i]).rate)
            /\ Upload(conn[i]).rate = TargetRate =>
                   conn[i].samples = Upload(conn[i]).frames
            /\ Upload(conn[i]) = AudioOk(16000, 1, 8000) =>
                   conn[i].samples \in 31999..32001

\* The steps of a transcription request, in the order of the claim
StepOrder == <<"read", "parse", "build", "audio", "invoke", "encode">>

\* C22: the steps of one request run in the order body read, multipart
\* decode, file-field check, audio decode/normalize, engine invoke, response
\* encode (the steps taken are always the first ones of that list, each
\* once, so the engine is invoked at most once), and a step is taken only
\* while nothing of the request has failed and no response was started: the
\* engine is never invoked after a failure.
StepsInOrder ==
    /\ [](\A i \in Conns :
             /\ Len(conn[i].trace) <= Len(StepOrder)
             /\ conn[i].trace = SubSeq(StepOrder, 1, Len(conn[i].trace)))
    /\ [][\A i \in Conns :
             Len(conn'[i].trace) > Len(conn[i].trace)
                 => /\ Len(conn'[i].trace) = Len(conn[i].trace) + 1
                    /\ conn[i].raises = 0
                    /\ conn[i].out = <<>>]_vars

\* C22 witness: a request went through all six steps and its 200 was
\* delivered.
AllStepsReached ==
    \E i \in Conns :
        /\ conn[i].pc = "done"
        /\ conn[i].trace = StepOrder
        /\ conn[i].out[1].status = 200 /\ conn[i].out[1].body

\* C23: whenever no start() or stop() call is under way, the server handle
\* is set exactly when a serving thread runs on a listening socket: no
\* interleaving of the calls of several threads leaves a listener running
\* with the handle None, nor a handle without a running listener.
HandleMatchesListener ==
    (\A t \in DOMAIN host : host[t].pc = "idle") =>
        /\ server = "None" => \A t \in DOMAIN loop : ~Alive(t)
        /\ server # "None" => sock = "listening" /\ \E t \in DOMAIN loop : Alive(t)

\* C24: a file field that was sent without a filename parameter, and is
\* therefore held as text, is rejected as an invalid request: the response
\* of such a request has a 4xx status.
TextFileRejected ==
    \A i \in Conns :
        (/\ Reached(conn[i], "build")
         /\ DictHas(conn[i].form, FileKey)
         /\ ~DictGet(conn[i].form, FileKey).is_file
         /\ conn[i].out # <<>>)
            => conn[i].out[1].status \in 400..499

=============================================================================
